---- MODULE Spec2Model ----
(***************************************************************************)
(* Task-dispatch core of the synthetic intelligence platform:              *)
(*   Task / BaseAgent            src/src/agents/base_agent.py              *)
(*   AgentOrchestrator           src/src/agents/orchestrator.py            *)
(*   ContentCreatorAgent         src/src/agents/content_creator.py         *)
(*   SocialMediaManagerAgent     src/src/agents/social_media_manager.py    *)
(* The orchestrator runs on one asyncio event loop: a coroutine runs       *)
(* atomically between two awaits, so one action is one such stretch.       *)
(***************************************************************************)
EXTENDS Integers, Sequences, FiniteSets, TLC

VARIABLES
    agents,           \* AgentOrchestrator.agents: dict name -> agent, as the list of its values in insertion order
    agent_tasks,      \* BaseAgent._tasks of every agent object: the ids it holds, in insertion order
    tasks,            \* every Task object ever allocated; a Task's id is its index
    task_queue,       \* AgentOrchestrator.task_queue: FIFO of <<agent name, task id>>
    completed_tasks,  \* AgentOrchestrator.completed_tasks (references to Task objects)
    failed_tasks,     \* AgentOrchestrator.failed_tasks
    is_running,       \* AgentOrchestrator._is_running
    workers,          \* AgentOrchestrator._workers: the pump loops of the latest process_tasks call
    pc,               \* where each _worker coroutine stands
    cur,              \* the agent and Task a _worker coroutine holds inside process_task (history: at_stop, whether stop() was called since)
    stop_pc,          \* where the stop() coroutine stands
    gathered,         \* the coroutines that the gather of stop() awaits
    wf,               \* the execute_workflow coroutine: its argument, its locals and where it stands
    clock,            \* the value datetime.now() last returned
    call,             \* the API call the last step completed, with its return value
    process_calls     \* per Task: how many times process_task was invoked on it

vars == <<agents, agent_tasks, tasks, task_queue, completed_tasks, failed_tasks,
          is_running, workers, pc, cur, stop_pc, gathered, wf, clock, call, process_calls>>

----------------------------------------------------------------------------
(* Bounds of the model *)

MaxTasks == 2
MaxLoops == 2
MaxClock == 2

----------------------------------------------------------------------------
(* Python values *)

None == "None"
NoResult == <<>>
NoTime == -1
NoTask == 0

Loops == 1..MaxLoops

(* Agent objects.  w1 and w2 are the spec's scenario workers; w1b is a     *)
(* second agent object constructed under the name w1; cc is a concrete     *)
(* agent, ContentCreatorAgent (SocialMediaManagerAgent.execute has the     *)
(* same shape).                                                            *)
AgentObjs == {"w1", "w2", "w1b", "cc"}

Agent ==
    [a \in AgentObjs |->
        CASE a = "w1"  -> [name |-> "w1", capabilities |-> {"echo"}, impl |-> "echo"]
          [] a = "w2"  -> [name |-> "w2", capabilities |-> {"fail"}, impl |-> "boom"]
          [] a = "w1b" -> [name |-> "w1", capabilities |-> {"echo", "fail"}, impl |-> "boom"]
          [] a = "cc"  -> [name |-> "content_creator",
                           capabilities |-> {"blog_post", "social_media_post", "email_newsletter",
                                             "video_script", "ad_copy", "product_description",
                                             "content_optimization", "seo_analysis"},
                           impl |-> "concrete"]]

(* Inputs of submit_task *)
TaskTypes == {"echo", "fail", "blog_post", "email_newsletter", "unknown"}
Payloads == {"hi"}
AgentNames == {None, "", "w1", "content_creator"}

(* A value execute returned or assigned, or the message it raised *)
NoOutcome == [kind |-> None, result |-> NoResult, error |-> None]

----------------------------------------------------------------------------
(* Task *)

Task(type, payload, now) ==
    [type |-> type, payload |-> payload, status |-> "pending",
     result |-> NoResult, error |-> None,
     created_at |-> now, started_at |-> NoTime, completed_at |-> NoTime]

----------------------------------------------------------------------------
(* BaseAgent *)

can_handle(a, task_type) == task_type \in Agent[a].capabilities

CannotHandle == "cannot handle task type"

\* Mutant: validate_task stamps started_at on the Task it fails
validate_task_Stamped(a, task) ==
    IF ~can_handle(a, task.type)
    THEN [task EXCEPT !.error = CannotHandle, !.status = "failed",
                      !.started_at = task.created_at]
    ELSE task

\* Mutant: validate_task accepts every Task
validate_task_Lenient(a, task) == task

validate_task(a, task) ==
    IF ~can_handle(a, task.type)
    THEN [task EXCEPT !.error = CannotHandle, !.status = "failed"]
    ELSE task

create_task(task_type, payload, now) == Task(task_type, payload, now)

\* self._tasks[task.id] = task
tasks_insert(table, id) == Append(table, id)

\* self._tasks.get(task_id): the Task, or None where the table does not hold the id
get_task(table, id) ==
    IF \E k \in 1..Len(table) : table[k] = id THEN id ELSE NoTask

\* Mutant: the status is left as it was when execute begins
process_task_start_NoRunning(task, now) ==
    [task EXCEPT !.started_at = now]

(* process_task up to the await of execute *)
process_task_start(task, now) ==
    [task EXCEPT !.status = "running", !.started_at = now]

(* What execute(task) of an agent can do.  "return": a value that is no    *)
(* Task; "raise": an exception with a message; "task": the Task itself,    *)
(* after assigning result or error on it.                                  *)
Handled == {"blog_post", "social_media_post", "video_script", "content_optimization"}

Outcome(kind, result, error) == [kind |-> kind, result |-> result, error |-> error]

ConcreteOutcomes(task) ==
    IF task.type \in Handled
    THEN {Outcome("task", <<"generated", task.type>>, task.error),
          Outcome("task", task.result, "Failed to create")}
    ELSE {Outcome("task", task.result, "Unsupported task type")}

execute(a, task) ==
    CASE Agent[a].impl = "echo" -> {Outcome("return", <<"echoed", task.payload>>, None)}
      [] Agent[a].impl = "boom" -> {Outcome("raise", NoResult, "boom")}
      [] Agent[a].impl = "concrete" -> ConcreteOutcomes(task)

\* Mutant: the isinstance test is inverted, so that a value that is no Task is
\* asked for its result attribute, which raises inside the try block
process_task_finish_Inverted(task, outcome, now) ==
    IF outcome.kind = "raise"
    THEN [task EXCEPT !.status = "failed", !.error = outcome.error, !.completed_at = now]
    ELSE IF outcome.kind = "task"
    THEN [task EXCEPT !.status = "completed", !.completed_at = now,
                      !.error = outcome.error, !.result = outcome.result]
    ELSE [task EXCEPT !.status = "failed", !.error = "AttributeError",
                      !.completed_at = now]

\* Mutant: the except branch does not record the message
process_task_finish_NoError(task, outcome, now) ==
    IF outcome.kind = "raise"
    THEN [task EXCEPT !.status = "failed", !.completed_at = now]
    ELSE IF outcome.kind = "task"
    THEN [task EXCEPT !.status = "completed", !.completed_at = now,
                      !.error = outcome.error, !.result = outcome.result]
    ELSE [task EXCEPT !.status = "completed", !.completed_at = now,
                      !.result = outcome.result]

\* Mutant: the end of process_task stamps started_at, and completed_at gets the
\* time at which the Task started
process_task_finish_Swapped(task, outcome, now) ==
    IF outcome.kind = "raise"
    THEN [task EXCEPT !.status = "failed", !.error = outcome.error,
                      !.started_at = now, !.completed_at = task.started_at]
    ELSE IF outcome.kind = "task"
    THEN [task EXCEPT !.status = "completed", !.started_at = now,
                      !.completed_at = task.started_at,
                      !.error = outcome.error, !.result = outcome.result]
    ELSE [task EXCEPT !.status = "completed", !.started_at = now,
                      !.completed_at = task.started_at,
                      !.result = outcome.result]

(* process_task from the return of execute to its own return *)
process_task_finish(task, outcome, now) ==
    IF outcome.kind = "raise"
    THEN [task EXCEPT !.status = "failed", !.error = outcome.error, !.completed_at = now]
    ELSE IF outcome.kind = "task"
    THEN [task EXCEPT !.status = "completed", !.completed_at = now,
                      !.error = outcome.error, !.result = outcome.result]
    ELSE [task EXCEPT !.status = "completed", !.completed_at = now,
                      !.result = outcome.result]

----------------------------------------------------------------------------
(* AgentOrchestrator: registry and routing *)

NameIndex(reg, name) ==
    IF \E i \in 1..Len(reg) : Agent[reg[i]].name = name
    THEN CHOOSE i \in 1..Len(reg) : Agent[reg[i]].name = name
    ELSE 0

\* Mutant: register_agent adds an entry whatever the name
register_agent_Append(reg, a) == Append(reg, a)

register_agent(reg, a) ==
    IF NameIndex(reg, Agent[a].name) # 0
    THEN [reg EXCEPT ![NameIndex(reg, Agent[a].name)] = a]
    ELSE Append(reg, a)

\* Mutant: an unknown name gets the first agent of the registry
get_agent_First(reg, name) ==
    IF NameIndex(reg, name) # 0 THEN reg[NameIndex(reg, name)]
    ELSE IF reg # <<>> THEN reg[1] ELSE None

get_agent(reg, name) ==
    IF NameIndex(reg, name) # 0 THEN reg[NameIndex(reg, name)] ELSE None

\* Mutant: the last capable agent of the registry is returned
find_agent_for_task_Last(reg, task_type) ==
    IF \E i \in 1..Len(reg) : can_handle(reg[i], task_type)
    THEN reg[CHOOSE i \in 1..Len(reg) :
                /\ can_handle(reg[i], task_type)
                /\ \A j \in (i + 1)..Len(reg) : ~can_handle(reg[j], task_type)]
    ELSE None

\* Mutant: falls back on the first registered agent when none is capable
find_agent_for_task_Fallback(reg, task_type) ==
    IF \E i \in 1..Len(reg) : can_handle(reg[i], task_type)
    THEN reg[CHOOSE i \in 1..Len(reg) :
                /\ can_handle(reg[i], task_type)
                /\ \A j \in 1..(i - 1) : ~can_handle(reg[j], task_type)]
    ELSE IF reg # <<>> THEN reg[1] ELSE None

find_agent_for_task(reg, task_type) ==
    IF \E i \in 1..Len(reg) : can_handle(reg[i], task_type)
    THEN reg[CHOOSE i \in 1..Len(reg) :
                /\ can_handle(reg[i], task_type)
                /\ \A j \in 1..(i - 1) : ~can_handle(reg[j], task_type)]
    ELSE None

(* `if agent_name:` is Python truthiness: None and "" both take the else branch *)
Truthy(agent_name) == agent_name # None /\ agent_name # ""

\* Mutant: a named agent that cannot take the task gives way to capability routing
submit_agent_Fallback(reg, task_type, agent_name) ==
    IF Truthy(agent_name)
          /\ get_agent(reg, agent_name) # None
          /\ can_handle(get_agent(reg, agent_name), task_type)
    THEN get_agent(reg, agent_name)
    ELSE find_agent_for_task(reg, task_type)

(* The agent submit_task settles on, None where it returns None *)
submit_agent(reg, task_type, agent_name) ==
    IF Truthy(agent_name)
    THEN IF get_agent(reg, agent_name) = None \/ ~can_handle(get_agent(reg, agent_name), task_type)
         THEN None
         ELSE get_agent(reg, agent_name)
    ELSE find_agent_for_task(reg, task_type)

----------------------------------------------------------------------------
(* asyncio.Queue, unbounded: put never waits *)

\* Mutant: put inserts the item twice
queue_put_Twice(q, item) == Append(Append(q, item), item)

\* Mutant: put inserts at the front
queue_put_Front(q, item) == <<item>> \o q

\* Mutant: the new item overtakes the item that was last in the queue
queue_put_Overtakes(q, item) ==
    IF q = <<>> THEN <<item>>
    ELSE Append(SubSeq(q, 1, Len(q) - 1), item) \o <<q[Len(q)]>>

queue_put(q, item) == Append(q, item)
queue_front(q) == Head(q)

\* Mutant: get reads the front item and leaves it in the queue
queue_get_Peek(q) == q

\* Mutant: get puts the item it hands over back at the tail
queue_get_Requeue(q) == Append(Tail(q), Head(q))

queue_get(q) == Tail(q)

----------------------------------------------------------------------------
(* Steps *)

CallRecord(op, task_type, agent_name, ret, outcome) ==
    [op |-> op, type |-> task_type, agent_name |-> agent_name, ret |-> ret,
     outcome |-> outcome]

NoCall == CallRecord("none", None, None, NoTask, NoOutcome)
NoCur == [agent |-> None, task |-> NoTask, at_stop |-> FALSE]

(* A step of a workflow: the dict with the keys type, agent and           *)
(* continue_on_failure, the last two "absent" where the dict lacks them   *)
Absent == "absent"

Step(task_type, agent_name, flag) ==
    [type |-> task_type, agent |-> agent_name, continue_on_failure |-> flag]

\* step.get('agent')
step_agent(step) == IF step.agent = Absent THEN None ELSE step.agent

\* step.get('continue_on_failure', True)
step_continue_on_failure(step) ==
    IF step.continue_on_failure = Absent THEN TRUE ELSE step.continue_on_failure = "True"

(* execute_workflow before it is called: pc is where the coroutine stands, *)
(* i the step of the for loop, task and results its locals; submitted      *)
(* lists the <<step, Task>> pairs of its submit_task calls that returned a *)
(* Task, skipped the steps whose submit_task call returned None            *)
NoWorkflow ==
    [pc |-> "idle", steps |-> <<>>, i |-> 0, task |-> NoTask, results |-> <<>>,
     submitted |-> <<>>, skipped |-> {}]

(* The orchestrator once the platform has registered its first agents *)
Init ==
    /\ agents = <<"w1", "w2">>
    /\ agent_tasks = [a \in AgentObjs |-> <<>>]
    /\ tasks = <<>>
    /\ task_queue = <<>>
    /\ completed_tasks = <<>>
    /\ failed_tasks = <<>>
    /\ is_running = FALSE
    /\ workers = {}
    /\ pc = [w \in Loops |-> "unborn"]
    /\ cur = [w \in Loops |-> NoCur]
    /\ stop_pc = "idle"
    /\ gathered = {}
    /\ wf = NoWorkflow
    /\ clock = 0
    /\ call = NoCall
    /\ process_calls = <<>>

RegisterAgent(a) ==
    /\ agents' = register_agent(agents, a)
    /\ agents' # agents
    /\ call' = NoCall
    /\ UNCHANGED <<agent_tasks, tasks, task_queue, completed_tasks, failed_tasks,
                   is_running, workers, pc, cur, stop_pc, gathered, wf, clock, process_calls>>

\* Mutant: submit_task creates and queues the Task and returns None
submit_return_None(id) == NoTask

\* `return task` at the end of submit_task
submit_return(id) == id

SubmitTask(task_type, payload, agent_name) ==
    LET agent == submit_agent(agents, task_type, agent_name)
        id == Len(tasks) + 1
    IN  IF agent = None
        THEN /\ call' = CallRecord("submit_task", task_type, agent_name, NoTask, NoOutcome)
             /\ UNCHANGED <<agents, agent_tasks, tasks, task_queue, completed_tasks,
                            failed_tasks, is_running, workers, pc, cur, stop_pc, gathered, wf, clock,
                            process_calls>>
        ELSE /\ tasks' = Append(tasks, create_task(task_type, payload, clock))
             /\ agent_tasks' = [agent_tasks EXCEPT ![agent] = tasks_insert(@, id)]
             /\ process_calls' = Append(process_calls, 0)
             /\ task_queue' = queue_put(task_queue, <<Agent[agent].name, id>>)
             /\ call' = CallRecord("submit_task", task_type, agent_name,
                                   submit_return(id), NoOutcome)
             /\ UNCHANGED <<agents, completed_tasks, failed_tasks, is_running, workers,
                            pc, cur, stop_pc, gathered, wf, clock>>

(* process_tasks(num_workers): the new coroutines are the unborn loops of lowest id *)
Unborn == {w \in Loops : pc[w] = "unborn"}

FirstUnborn(n) == {w \in Unborn : Cardinality({v \in Unborn : v < w}) < n}

ProcessTasks(num_workers) ==
    /\ Cardinality(Unborn) >= num_workers
    /\ is_running' = TRUE
    /\ workers' = FirstUnborn(num_workers)
    /\ pc' = [w \in Loops |-> IF w \in FirstUnborn(num_workers) THEN "created" ELSE pc[w]]
    /\ call' = NoCall
    /\ UNCHANGED <<agents, agent_tasks, tasks, task_queue, completed_tasks, failed_tasks,
                   cur, stop_pc, gathered, wf, clock, process_calls>>

\* Mutant: the loop is `while True`
LoopTest_Always == "waiting"

\* Mutant: the loop test is inverted
LoopTest_Inverted == IF is_running THEN "done" ELSE "waiting"

(* _worker: the test of `while self._is_running`, which leads into            *)
(* wait_for(task_queue.get(), 1.0) or out of the coroutine without an await *)
LoopTest == IF is_running THEN "waiting" ELSE "done"

(* _worker: the coroutine that process_tasks created runs for the first time *)
WorkerLoop(w) ==
    /\ pc[w] = "created"
    /\ pc' = [pc EXCEPT ![w] = LoopTest]
    /\ call' = NoCall
    /\ UNCHANGED <<agents, agent_tasks, tasks, task_queue, completed_tasks, failed_tasks,
                   is_running, workers, cur, stop_pc, gathered, wf, clock, process_calls>>

(* _worker: wait_for(task_queue.get(), 1.0) ran out on an empty queue; *)
(* `continue` leads to the loop test                                    *)
WorkerTimeout(w) ==
    /\ pc[w] = "waiting"
    /\ task_queue = <<>>
    /\ pc' = [pc EXCEPT ![w] = LoopTest]
    /\ call' = NoCall
    /\ UNCHANGED <<agents, agent_tasks, tasks, task_queue, completed_tasks, failed_tasks,
                   is_running, workers, cur, stop_pc, gathered, wf, clock, process_calls>>

\* Mutant: the ledgers grow at the front
Ledgers_Front(id, task) ==
    IF task.status = "completed"
    THEN /\ completed_tasks' = <<id>> \o completed_tasks
         /\ UNCHANGED failed_tasks
    ELSE /\ failed_tasks' = <<id>> \o failed_tasks
         /\ UNCHANGED completed_tasks

\* Mutant: a Task that is not completed goes to no ledger
Ledgers_DropsFailed(id, task) ==
    IF task.status = "completed"
    THEN /\ completed_tasks' = Append(completed_tasks, id)
         /\ UNCHANGED failed_tasks
    ELSE UNCHANGED <<completed_tasks, failed_tasks>>

\* Mutant: the test of the status is inverted
Ledgers_Swapped(id, task) ==
    IF task.status # "completed"
    THEN /\ completed_tasks' = Append(completed_tasks, id)
         /\ UNCHANGED failed_tasks
    ELSE /\ failed_tasks' = Append(failed_tasks, id)
         /\ UNCHANGED completed_tasks

(* The ledger append of _worker for a Task that process_task returned *)
Ledgers(id, task) ==
    IF task.status = "completed"
    THEN /\ completed_tasks' = Append(completed_tasks, id)
         /\ UNCHANGED failed_tasks
    ELSE /\ failed_tasks' = Append(failed_tasks, id)
         /\ UNCHANGED completed_tasks

(* _worker: the queue hands over an item; get_agent, then process_task up to *)
(* its first await, or to its return when validate_task fails               *)
WorkerGet(w) ==
    /\ pc[w] = "waiting"
    /\ task_queue # <<>>
    /\ LET agent_name == queue_front(task_queue)[1]
           id == queue_front(task_queue)[2]
           agent == get_agent(agents, agent_name)
       IN  /\ task_queue' = queue_get(task_queue)
           /\ IF agent = None
              THEN /\ pc' = [pc EXCEPT ![w] = LoopTest]
                   /\ call' = NoCall
                   /\ UNCHANGED <<tasks, completed_tasks, failed_tasks, cur, process_calls>>
              ELSE /\ process_calls' = [process_calls EXCEPT ![id] = @ + 1]
                   /\ IF validate_task(agent, tasks[id]).status = "failed"
                      THEN /\ tasks' = [tasks EXCEPT ![id] = validate_task(agent, @)]
                           /\ Ledgers(id, tasks'[id])
                           /\ pc' = [pc EXCEPT ![w] = LoopTest]
                           /\ call' = CallRecord("process_task", tasks[id].type,
                                                 Agent[agent].name, id, NoOutcome)
                           /\ UNCHANGED cur
                      ELSE /\ tasks' = [tasks EXCEPT ![id] = process_task_start(@, clock)]
                           /\ cur' = [cur EXCEPT ![w] = [agent |-> agent, task |-> id, at_stop |-> FALSE]]
                           /\ pc' = [pc EXCEPT ![w] = "executing"]
                           /\ call' = NoCall
                           /\ UNCHANGED <<completed_tasks, failed_tasks>>
    /\ UNCHANGED <<agents, agent_tasks, is_running, workers, stop_pc, gathered, wf, clock>>

\* Mutant: an exception raised by execute leaves process_task and ends the loop
worker_after_Propagates(outcome) ==
    IF outcome.kind = "raise" THEN "done" ELSE LoopTest

(* _worker after process_task returned: process_task has caught whatever   *)
(* execute raised, so the loop goes to its test                            *)
worker_after(outcome) == LoopTest

(* _worker: execute comes back; the rest of process_task, the ledger append *)
(* and task_done                                                            *)
WorkerExecuted(w) ==
    /\ pc[w] = "executing"
    /\ LET id == cur[w].task IN
       \E outcome \in execute(cur[w].agent, tasks[id]) :
           /\ tasks' = [tasks EXCEPT ![id] = process_task_finish(@, outcome, clock)]
           /\ Ledgers(id, tasks'[id])
           /\ call' = CallRecord("process_task", tasks[id].type,
                                 Agent[cur[w].agent].name, id, outcome)
           /\ pc' = [pc EXCEPT ![w] = worker_after(outcome)]
    /\ cur' = [cur EXCEPT ![w] = NoCur]
    /\ UNCHANGED <<agents, agent_tasks, task_queue, is_running, workers, stop_pc,
                   gathered, wf, clock, process_calls>>

\* Mutant: stop() empties the queue
Stop_Drains ==
    /\ stop_pc = "idle"
    /\ is_running' = FALSE
    /\ stop_pc' = "gather"
    /\ gathered' = workers
    /\ task_queue' = <<>>
    /\ cur' = [w \in Loops |-> IF cur[w].task # NoTask
                                THEN [cur[w] EXCEPT !.at_stop = TRUE]
                                ELSE cur[w]]
    /\ call' = NoCall
    /\ UNCHANGED <<agents, agent_tasks, tasks, completed_tasks, failed_tasks,
                   workers, pc, wf, clock, process_calls>>

(* stop(): up to the await of gather *)
Stop ==
    /\ stop_pc = "idle"
    /\ is_running' = FALSE
    /\ stop_pc' = "gather"
    /\ gathered' = workers
    /\ cur' = [w \in Loops |-> IF cur[w].task # NoTask
                                THEN [cur[w] EXCEPT !.at_stop = TRUE]
                                ELSE cur[w]]
    /\ call' = NoCall
    /\ UNCHANGED <<agents, agent_tasks, tasks, task_queue, completed_tasks, failed_tasks,
                   workers, pc, wf, clock, process_calls>>

\* stop(): the gather over the coroutines that self._workers held at the call is over
StopReturn ==
    /\ stop_pc = "gather"
    /\ \A w \in gathered : pc[w] = "done"
    /\ stop_pc' = "idle"
    /\ gathered' = {}
    /\ call' = CallRecord("stop", None, None, NoTask, NoOutcome)
    /\ UNCHANGED <<agents, agent_tasks, tasks, task_queue, completed_tasks, failed_tasks,
                   is_running, workers, pc, cur, wf, clock, process_calls>>

(* self.agents is a public dict and the class has no method that removes a  *)
(* name: code that holds the orchestrator takes a name out of the dict      *)
(* itself, which is what the `if agent:` test of _worker is there for       *)
agents_pop(reg, name) == SelectSeq(reg, LAMBDA a : Agent[a].name # name)

AgentsPop(name) ==
    /\ NameIndex(agents, name) # 0
    /\ agents' = agents_pop(agents, name)
    /\ call' = NoCall
    /\ UNCHANGED <<agent_tasks, tasks, task_queue, completed_tasks, failed_tasks,
                   is_running, workers, pc, cur, stop_pc, gathered, wf, clock, process_calls>>

(* Time passes: datetime.now() never runs backwards *)
Tick ==
    /\ clock < MaxClock
    /\ clock' = clock + 1
    /\ call' = NoCall
    /\ UNCHANGED <<agents, agent_tasks, tasks, task_queue, completed_tasks, failed_tasks,
                   is_running, workers, pc, cur, stop_pc, gathered, wf, process_calls>>

----------------------------------------------------------------------------
(* AgentOrchestrator.get_system_status.  It has no await and changes      *)
(* nothing: what a call returns is a function of the state.  A number     *)
(* that a division produced is kept as the fraction num / den.            *)

Fraction(num, den) == [num |-> num, den |-> den]

\* Mutant: no test of the denominator
success_rate_Unguarded(completed, total) == Fraction(completed * 100, total)

\* Mutant: the quotient is not multiplied by 100
success_rate_Ratio(completed, total) ==
    IF total > 0 THEN Fraction(completed, total) ELSE Fraction(0, 1)

\* (completed / total * 100) if total > 0 else 0
success_rate(completed, total) ==
    IF total > 0 THEN Fraction(completed * 100, total) ELSE Fraction(0, 1)

\* Mutant: the counts of an agent are read off the ledgers of the orchestrator
status_count_Ledger(a, status) ==
    IF status = "completed" THEN Len(completed_tasks)
    ELSE IF status = "failed" THEN Len(failed_tasks)
    ELSE Cardinality({k \in 1..Len(agent_tasks[a]) : tasks[agent_tasks[a][k]].status = status})

\* len([t for t in agent.get_tasks() if t.status == status])
status_count(a, status) ==
    Cardinality({k \in 1..Len(agent_tasks[a]) : tasks[agent_tasks[a][k]].status = status})

agent_status(a) ==
    [capabilities |-> Agent[a].capabilities,
     tasks_completed |-> status_count(a, "completed"),
     tasks_failed |-> status_count(a, "failed"),
     tasks_running |-> status_count(a, "running"),
     success_rate |-> success_rate(status_count(a, "completed"),
                                   status_count(a, "completed") + status_count(a, "failed"))]

get_system_status ==
    [total_tasks_processed |-> Len(completed_tasks) + Len(failed_tasks),
     success_rate |-> success_rate(Len(completed_tasks),
                                   Len(completed_tasks) + Len(failed_tasks)),
     queue_size |-> Len(task_queue),
     agents |-> [k \in 1..Len(agents) |-> agent_status(agents[k])],
     is_running |-> is_running]

----------------------------------------------------------------------------
(* AgentOrchestrator.execute_workflow *)

(* The workflows handed to execute_workflow.  WScenario is the scenario of *)
(* the specification; WNamed is the same workflow with the agent of every  *)
(* step named; WStop has the flag on the step that fails; WSkip begins     *)
(* with steps for which submit_task returns None.                          *)
WScenario ==
    <<Step("echo", Absent, "False"), Step("fail", Absent, Absent),
      Step("echo", Absent, Absent)>>

WNamed ==
    <<Step("echo", "w1", "False"), Step("fail", "w2", Absent),
      Step("echo", "w1", Absent)>>

WStop ==
    <<Step("echo", "w1", Absent), Step("fail", "w2", "False"),
      Step("echo", "w1", "True")>>

WSkip ==
    <<Step("unknown", Absent, "False"), Step("fail", "w1", "False"),
      Step("echo", "w1", "True")>>

Workflows == {WScenario, WNamed, WStop, WSkip}

\* Mutant: a step for which submit_task returns None ends the loop when its
\* flag is False
NextSubmitted_BreakOnNone(reg, steps, from) ==
    IF \E j \in from..Len(steps) :
            /\ submit_agent(reg, steps[j].type, step_agent(steps[j])) # None
            /\ \A k \in from..(j - 1) :
                   /\ submit_agent(reg, steps[k].type, step_agent(steps[k])) = None
                   /\ step_continue_on_failure(steps[k])
    THEN CHOOSE j \in from..Len(steps) :
            /\ submit_agent(reg, steps[j].type, step_agent(steps[j])) # None
            /\ \A k \in from..(j - 1) :
                   submit_agent(reg, steps[k].type, step_agent(steps[k])) = None
    ELSE Len(steps) + 1

\* The first step from `from` on for which submit_task returns a Task,
\* Len(steps) + 1 where there is none
NextSubmitted(reg, steps, from) ==
    IF \E j \in from..Len(steps) :
            submit_agent(reg, steps[j].type, step_agent(steps[j])) # None
    THEN CHOOSE j \in from..Len(steps) :
            /\ submit_agent(reg, steps[j].type, step_agent(steps[j])) # None
            /\ \A k \in from..(j - 1) :
                   submit_agent(reg, steps[k].type, step_agent(steps[k])) = None
    ELSE Len(steps) + 1

(* The for loop from step `from` on, up to its first await that suspends  *)
(* (the sleep of the polling loop, which a Task that submit_task has just *)
(* returned always enters) or to the return.  submit_task itself never    *)
(* suspends: the queue is unbounded.                                      *)
WorkflowFor(steps, from, results) ==
    LET j == NextSubmitted(agents, steps, from)
        id == Len(tasks) + 1
    IN  IF j > Len(steps)
        THEN /\ wf' = [wf EXCEPT !.pc = "returned", !.steps = steps, !.i = j,
                                 !.results = results,
                                 !.skipped = @ \cup (from..(j - 1))]
             /\ call' = CallRecord("execute_workflow", None, None, NoTask, NoOutcome)
             /\ UNCHANGED <<tasks, agent_tasks, process_calls, task_queue>>
        ELSE LET agent == submit_agent(agents, steps[j].type, step_agent(steps[j]))
             IN  /\ tasks' = Append(tasks, create_task(steps[j].type, "hi", clock))
                 /\ agent_tasks' = [agent_tasks EXCEPT ![agent] = tasks_insert(@, id)]
                 /\ process_calls' = Append(process_calls, 0)
                 /\ task_queue' = queue_put(task_queue, <<Agent[agent].name, id>>)
                 /\ wf' = [wf EXCEPT !.pc = "sleeping", !.steps = steps, !.i = j,
                                     !.task = id, !.results = results,
                                     !.submitted = Append(@, <<j, id>>),
                                     !.skipped = @ \cup (from..(j - 1))]
                 /\ call' = NoCall

(* execute_workflow(workflow) is called *)
ExecuteWorkflow(steps) ==
    /\ wf.pc = "idle"
    /\ WorkflowFor(steps, 1, <<>>)
    /\ UNCHANGED <<agents, completed_tasks, failed_tasks, is_running, workers, pc, cur,
                   stop_pc, gathered, clock>>

\* Mutant: the polling loop ends as soon as the Task is no longer pending
workflow_waiting_PendingOnly(task) == task.status = "pending"

\* while task.status in ['pending', 'running']
workflow_waiting(task) == task.status \in {"pending", "running"}

\* Mutant: the break test lacks its `not`
workflow_break_NoNot(task, step) ==
    task.status = "failed" /\ step_continue_on_failure(step)

\* task.status == 'failed' and not step.get('continue_on_failure', True)
workflow_break(task, step) ==
    task.status = "failed" /\ ~step_continue_on_failure(step)

\* task = self.get_agent(agent_name).get_task(task.id) if agent_name else None
workflow_poll(reg, table, step, id) ==
    IF Truthy(step_agent(step))
    THEN IF get_agent(reg, step_agent(step)) = None
         THEN NoTask
         ELSE get_task(table[get_agent(reg, step_agent(step))], id)
    ELSE NoTask

(* execute_workflow: the sleep of the polling loop is over.  The poll      *)
(* re-reads the Task; task.status on None raises AttributeError out of     *)
(* execute_workflow; a Task that is pending or running leads to the next   *)
(* sleep; any other is appended, and the loop breaks or goes on.           *)
WorkflowWake ==
    /\ wf.pc = "sleeping"
    /\ LET step == wf.steps[wf.i]
           task == workflow_poll(agents, agent_tasks, step, wf.task)
       IN  IF task = NoTask
           THEN /\ wf' = [wf EXCEPT !.pc = "raised", !.task = NoTask]
                /\ call' = CallRecord("execute_workflow", None, None, NoTask,
                                      Outcome("raise", NoResult, "AttributeError"))
                /\ UNCHANGED <<tasks, agent_tasks, process_calls, task_queue>>
           ELSE IF workflow_waiting(tasks[task])
           THEN /\ call' = NoCall
                /\ UNCHANGED <<wf, tasks, agent_tasks, process_calls, task_queue>>
           ELSE IF workflow_break(tasks[task], step)
           THEN /\ wf' = [wf EXCEPT !.pc = "returned", !.results = Append(@, task)]
                /\ call' = CallRecord("execute_workflow", None, None, NoTask, NoOutcome)
                /\ UNCHANGED <<tasks, agent_tasks, process_calls, task_queue>>
           ELSE WorkflowFor(wf.steps, wf.i + 1, Append(wf.results, task))
    /\ UNCHANGED <<agents, completed_tasks, failed_tasks, is_running, workers, pc, cur,
                   stop_pc, gathered, clock>>

(* A submit_task call that returns None changes no variable of the program *)
(* (SubmitNoneFrame): Next leaves those calls to NextCalls.                *)
Next ==
    \/ \E a \in AgentObjs : RegisterAgent(a)
    \/ \E t \in TaskTypes, p \in Payloads, n \in AgentNames :
            /\ Len(tasks) < MaxTasks
            /\ submit_agent(agents, t, n) # None
            /\ SubmitTask(t, p, n)
    \/ \E n \in 1..MaxLoops : ProcessTasks(n)
    \/ \E w \in Loops : WorkerLoop(w)
    \/ \E w \in Loops : WorkerTimeout(w)
    \/ \E w \in Loops : WorkerGet(w)
    \/ \E w \in Loops : WorkerExecuted(w)
    \/ Stop
    \/ StopReturn

Spec == Init /\ [][Next]_vars

(* The calls of the API, each with its arguments and its return value, *)
(* against one pump loop                                                *)
NextCalls ==
    \/ \E a \in AgentObjs : RegisterAgent(a)
    \/ \E t \in TaskTypes, p \in Payloads, n \in AgentNames :
            /\ submit_agent(agents, t, n) = None \/ Len(tasks) < MaxTasks
            /\ SubmitTask(t, p, n)
    \/ Unborn = Loops /\ ProcessTasks(1)
    \/ \E w \in Loops : WorkerLoop(w)
    \/ \E w \in Loops : WorkerTimeout(w)
    \/ \E w \in Loops : WorkerGet(w)
    \/ \E w \in Loops : WorkerExecuted(w)

SpecCalls == Init /\ [][NextCalls]_vars

(* A pool that is never stopped, on an event loop that runs every coroutine *)
(* that is ready, with execute calls that come back                         *)
NextLive ==
    \/ \E a \in AgentObjs : RegisterAgent(a)
    \/ \E t \in TaskTypes, p \in Payloads, n \in AgentNames :
            /\ Len(tasks) < MaxTasks
            /\ submit_agent(agents, t, n) # None
            /\ SubmitTask(t, p, n)
    \/ \E n \in 1..MaxLoops : ProcessTasks(n)
    \/ \E w \in Loops : WorkerLoop(w)
    \/ \E w \in Loops : WorkerTimeout(w)
    \/ \E w \in Loops : WorkerGet(w)
    \/ \E w \in Loops : WorkerExecuted(w)

SpecLive ==
    /\ Init
    /\ [][NextLive]_vars
    /\ \A w \in Loops : WF_vars(WorkerLoop(w))
    /\ \A w \in Loops : WF_vars(WorkerGet(w))
    /\ \A w \in Loops : WF_vars(WorkerExecuted(w))

(* One pump loop under a clock that moves between the steps *)
NextTime ==
    \/ Tick
    \/ \E a \in AgentObjs : RegisterAgent(a)
    \/ \E t \in TaskTypes, p \in Payloads, n \in AgentNames :
            /\ Len(tasks) < MaxTasks
            /\ submit_agent(agents, t, n) # None
            /\ SubmitTask(t, p, n)
    \/ Unborn = Loops /\ ProcessTasks(1)
    \/ \E w \in Loops : WorkerLoop(w)
    \/ \E w \in Loops : WorkerTimeout(w)
    \/ \E w \in Loops : WorkerGet(w)
    \/ \E w \in Loops : WorkerExecuted(w)

SpecTime == Init /\ [][NextTime]_vars

(* One execute_workflow call beside the pump loops; every Task is one that *)
(* the workflow submitted                                                  *)
NextWF ==
    \/ \E a \in AgentObjs : RegisterAgent(a)
    \/ \E steps \in Workflows : ExecuteWorkflow(steps)
    \/ WorkflowWake
    \/ \E n \in 1..MaxLoops : ProcessTasks(n)
    \/ \E w \in Loops : WorkerLoop(w)
    \/ \E w \in Loops : WorkerTimeout(w)
    \/ \E w \in Loops : WorkerGet(w)
    \/ \E w \in Loops : WorkerExecuted(w)

SpecWF == Init /\ [][NextWF]_vars

(* Pools that are stopped and started again, on an event loop that runs *)
(* every coroutine that is ready, with execute calls that come back     *)
SpecRestart ==
    /\ Init
    /\ [][Next]_vars
    /\ \A w \in Loops : WF_vars(WorkerLoop(w))
    /\ \A w \in Loops : WF_vars(WorkerGet(w))
    /\ \A w \in Loops : WF_vars(WorkerExecuted(w))

(* One execute_workflow call beside pump loops that are never stopped, on an *)
(* event loop that runs every coroutine that is ready: the sleeps of the     *)
(* polling loop end and the execute calls come back                          *)
SpecWFLive ==
    /\ Init
    /\ [][NextWF]_vars
    /\ WF_vars(WorkflowWake)
    /\ \A w \in Loops : WF_vars(WorkerLoop(w))
    /\ \A w \in Loops : WF_vars(WorkerGet(w))
    /\ \A w \in Loops : WF_vars(WorkerExecuted(w))

(* One pump loop under a registry that also loses names: the owner of the *)
(* orchestrator pops them from self.agents                                *)
NextDrop ==
    \/ \E a \in AgentObjs : RegisterAgent(a)
    \/ \E name \in AgentNames : AgentsPop(name)
    \/ \E t \in TaskTypes, p \in Payloads, n \in AgentNames :
            /\ Len(tasks) < MaxTasks
            /\ submit_agent(agents, t, n) # None
            /\ SubmitTask(t, p, n)
    \/ Unborn = Loops /\ ProcessTasks(1)
    \/ \E w \in Loops : WorkerLoop(w)
    \/ \E w \in Loops : WorkerTimeout(w)
    \/ \E w \in Loops : WorkerGet(w)
    \/ \E w \in Loops : WorkerExecuted(w)

SpecDrop == Init /\ [][NextDrop]_vars

----------------------------------------------------------------------------
(* Properties *)

Terminal == {"completed", "failed"}
TaskIds == 1..Len(tasks)
Count(seq, x) == Cardinality({k \in 1..Len(seq) : seq[k] = x})
InLedger(i) == Count(completed_tasks, i) + Count(failed_tasks, i) > 0
Registered == {agents[i] : i \in 1..Len(agents)}

StatusSteps == {<<"pending", "running">>, <<"running", "completed">>,
                <<"running", "failed">>, <<"pending", "failed">>}

\* C1: the status of a Task only moves pending -> running -> completed,
\* pending -> running -> failed, or pending -> failed, the last only with
\* the capability-mismatch error; no step leads back to pending or running.
C1_StatusPath ==
    [][\A i \in TaskIds :
          \/ tasks'[i].status = tasks[i].status
          \/ /\ <<tasks[i].status, tasks'[i].status>> \in StatusSteps
             /\ (tasks[i].status = "pending" /\ tasks'[i].status = "failed")
                    => tasks'[i].error = CannotHandle]_vars

C1_Witness ==
    \E i, j \in TaskIds :
        /\ tasks[i].status = "failed" /\ tasks[i].error = CannotHandle
        /\ tasks[i].started_at = NoTime
        /\ tasks[j].status \in Terminal /\ tasks[j].started_at # NoTime

\* C2: under every interleaving of the pump loops, process_task is invoked
\* at most once on a Task, and a Task stands at most once in the completed
\* and failed ledgers taken together.
C2_ProcessedOnce ==
    \A i \in TaskIds :
        /\ process_calls[i] <= 1
        /\ Count(completed_tasks, i) + Count(failed_tasks, i) <= 1

C2_Witness ==
    /\ Len(tasks) = MaxTasks
    /\ \A w \in Loops : pc[w] \in {"waiting", "done"}
    /\ \A i \in TaskIds : process_calls[i] = 1 /\ InLedger(i)

\* C3: while the pool runs and is never stopped, every submitted Task
\* eventually is completed or failed and stands in a ledger.
C3_EventuallyTerminal ==
    \A i \in 1..MaxTasks :
        (Len(tasks) >= i /\ is_running)
            ~> (Len(tasks) >= i /\ tasks[i].status \in Terminal /\ InLedger(i))

C3_Witness ==
    /\ is_running
    /\ Len(tasks) = MaxTasks
    /\ \A i \in TaskIds : tasks[i].status \in Terminal /\ InLedger(i)

\* C4: once a Task is completed or failed, no step changes any of its fields.
C4_TerminalFinal ==
    [][\A i \in TaskIds :
          tasks[i].status \in Terminal => tasks'[i] = tasks[i]]_vars

C4_Witness ==
    /\ stop_pc = "gather"
    /\ \E i, j \in TaskIds :
          /\ i < j
          /\ tasks[i].status \in Terminal
          /\ tasks[j].status \in Terminal
          /\ Count(completed_tasks, i) + Count(failed_tasks, j) = 2

NoCapable(reg, task_type) ==
    \A i \in 1..Len(reg) : task_type \notin Agent[reg[i]].capabilities

\* C5: a submit_task call without an agent name, for a type that no registered
\* agent has among its capabilities, returns None and leaves the queue as it was.
C5_SubmitUnroutable ==
    [][(/\ call'.op = "submit_task"
        /\ call'.agent_name = None
        /\ NoCapable(agents, call'.type))
          => (call'.ret = NoTask /\ task_queue' = task_queue)]_vars

C5_Witness ==
    /\ call.op = "submit_task"
    /\ call.agent_name = None
    /\ NoCapable(agents, call.type)
    /\ call.ret = NoTask
    /\ task_queue # <<>>

NamedCapable(reg, agent_name, task_type) ==
    \E i \in 1..Len(reg) :
        /\ Agent[reg[i]].name = agent_name
        /\ task_type \in Agent[reg[i]].capabilities

\* C6 as stated: a submit_task call with an agent name returns a Task exactly
\* when an agent is registered under that name and has the type among its
\* capabilities.
C6_NamedSubmit_AsStated ==
    [][(call'.op = "submit_task" /\ call'.agent_name # None)
          => (call'.ret # NoTask
                <=> NamedCapable(agents, call'.agent_name, call'.type))]_vars

\* C6 amended: a submit_task call with a non-empty agent name returns a Task
\* exactly when an agent is registered under that name and has the type among
\* its capabilities, whatever the other registered agents can handle.
C6_NamedSubmit ==
    [][(call'.op = "submit_task" /\ call'.agent_name \notin {None, ""})
          => (call'.ret # NoTask
                <=> NamedCapable(agents, call'.agent_name, call'.type))]_vars

C6_Witness ==
    /\ call.op = "submit_task"
    /\ call.agent_name \notin {None, ""}
    /\ NamedCapable(agents, call.agent_name, "blog_post")
    /\ ~NamedCapable(agents, call.agent_name, call.type)
    /\ ~NoCapable(agents, call.type)
    /\ call.ret = NoTask

\* C7: a submit_task call that returns a Task has allocated exactly that Task,
\* pending and with result, error, started_at and completed_at unset, in the
\* table of one registered agent that can handle the type, and has put the
\* pair of that agent's name and the Task at the tail of the queue.
C7_SubmitCreates ==
    [][(call'.op = "submit_task" /\ call'.ret # NoTask)
          => /\ Len(tasks') = Len(tasks) + 1
             /\ call'.ret = Len(tasks')
             /\ \A i \in TaskIds : tasks'[i] = tasks[i]
             /\ tasks'[call'.ret].type = call'.type
             /\ tasks'[call'.ret].status = "pending"
             /\ tasks'[call'.ret].result = NoResult
             /\ tasks'[call'.ret].error = None
             /\ tasks'[call'.ret].started_at = NoTime
             /\ tasks'[call'.ret].completed_at = NoTime
             /\ \E a \in Registered :
                    /\ can_handle(a, call'.type)
                    /\ agent_tasks'[a] = Append(agent_tasks[a], call'.ret)
                    /\ \A b \in AgentObjs \ {a} : agent_tasks'[b] = agent_tasks[b]
                    /\ task_queue' = Append(task_queue, <<Agent[a].name, call'.ret>>)]_vars

C7_Witness ==
    /\ call.op = "submit_task"
    /\ call.ret = MaxTasks
    /\ Len(task_queue) = MaxTasks
    /\ task_queue[MaxTasks][2] = call.ret
    /\ tasks[call.ret].status = "pending"

Success(outcome) ==
    \/ outcome.kind = "return"
    \/ outcome.kind = "task" /\ outcome.result # NoResult /\ outcome.error = None

\* C8: when execute comes back with a success outcome, the Task is completed,
\* its result is that outcome, its error is unset, and the pump loop appends
\* it to the completed ledger and not to the failed ledger.
C8_SuccessCompletes ==
    [][(call'.op = "process_task" /\ Success(call'.outcome))
          => /\ tasks'[call'.ret].status = "completed"
             /\ tasks'[call'.ret].result = call'.outcome.result
             /\ tasks'[call'.ret].error = None
             /\ completed_tasks' = Append(completed_tasks, call'.ret)
             /\ failed_tasks' = failed_tasks
             /\ Count(failed_tasks', call'.ret) = 0]_vars

C8_Witness ==
    /\ call.op = "process_task"
    /\ call.outcome.kind = "return"
    /\ tasks[call.ret].status = "completed"
    /\ tasks[call.ret].result = <<"echoed", "hi">>
    /\ Count(completed_tasks, call.ret) = 1

\* C9: when execute raises with a message, the Task is failed with that message
\* as its error and the pump loop appends it to the failed ledger; a failed
\* Task never stands in the completed ledger.
C9_RaiseFails ==
    [][/\ (call'.op = "process_task" /\ call'.outcome.kind = "raise")
            => /\ tasks'[call'.ret].status = "failed"
               /\ tasks'[call'.ret].error = call'.outcome.error
               /\ failed_tasks' = Append(failed_tasks, call'.ret)
               /\ completed_tasks' = completed_tasks
       /\ \A i \in TaskIds :
            tasks[i].status = "failed" => Count(completed_tasks', i) = 0]_vars

C9_Witness ==
    /\ call.op = "process_task"
    /\ call.outcome.kind = "raise"
    /\ tasks[call.ret].status = "failed"
    /\ tasks[call.ret].error = "boom"
    /\ Count(failed_tasks, call.ret) = 1
    /\ completed_tasks # <<>>

\* C10: a Task that process_task has returned has exactly one of result and
\* error set: the result and no error when completed, the error and no result
\* when failed.
C10_ResultXorError ==
    \A i \in TaskIds :
        /\ tasks[i].status = "completed"
              => (tasks[i].result # NoResult /\ tasks[i].error = None)
        /\ tasks[i].status = "failed"
              => (tasks[i].error # None /\ tasks[i].result = NoResult)

\* C11: in every reachable state, a Task whose result is set is completed and
\* a Task whose error is set is failed.
C11_FieldsFollowStatus ==
    \A i \in TaskIds :
        /\ tasks[i].result # NoResult => tasks[i].status = "completed"
        /\ tasks[i].error # None => tasks[i].status = "failed"

\* C12: in every reachable state, completed_at of a Task is set exactly when
\* the Task is completed or failed, the capability-mismatch failure included.
C12_CompletedAtIffTerminal ==
    \A i \in TaskIds :
        tasks[i].completed_at # NoTime <=> tasks[i].status \in Terminal

\* C13: started_at of a Task is set exactly when the Task has reached running:
\* a step sets it exactly when it moves the Task to running, no step changes
\* it otherwise, a running Task has it set and a pending Task has it unset.
C13_StartedAtIffRan ==
    [][/\ \A i \in TaskIds :
            /\ (tasks[i].started_at = NoTime /\ tasks'[i].started_at # NoTime)
                   <=> (tasks[i].status # "running" /\ tasks'[i].status = "running")
            /\ tasks[i].started_at # NoTime
                   => tasks'[i].started_at = tasks[i].started_at
       /\ \A i \in 1..Len(tasks') :
            /\ tasks'[i].status = "pending" => tasks'[i].started_at = NoTime
            /\ tasks'[i].status = "running" => tasks'[i].started_at # NoTime]_vars

C13_Witness ==
    \E i, j \in TaskIds :
        /\ tasks[i].status = "failed" /\ tasks[i].started_at = NoTime
        /\ tasks[j].status = "running" /\ tasks[j].started_at # NoTime

\* C14: under a clock that never runs backwards, a Task whose created_at,
\* started_at and completed_at are all set has
\* created_at <= started_at <= completed_at.
C14_TimesOrdered ==
    \A i \in TaskIds :
        (tasks[i].started_at # NoTime /\ tasks[i].completed_at # NoTime)
            => (tasks[i].created_at <= tasks[i].started_at
                /\ tasks[i].started_at <= tasks[i].completed_at)

C14_Witness ==
    \E i \in TaskIds :
        /\ tasks[i].created_at < tasks[i].started_at
        /\ tasks[i].started_at < tasks[i].completed_at

Submitted == wf.submitted
SubmittedIds == [k \in 1..Len(Submitted) |-> Submitted[k][2]]
Routable(step) == submit_agent(agents, step.type, step_agent(step)) # None

\* C15: once a Task that the workflow submitted is failed and the flag of its
\* own step is False, no later step is submitted, and what the workflow
\* returns is the Tasks of the steps submitted up to that one, in order.
C15_StopsAtFailure ==
    \A k \in 1..Len(Submitted) :
        (/\ tasks[Submitted[k][2]].status = "failed"
         /\ ~step_continue_on_failure(wf.steps[Submitted[k][1]]))
            => /\ k = Len(Submitted)
               /\ wf.pc = "returned" => wf.results = SubmittedIds

C15_Witness ==
    /\ wf.pc = "returned"
    /\ wf.steps = WStop
    /\ Len(wf.results) = 2
    /\ tasks[wf.results[2]].status = "failed"
    /\ Routable(wf.steps[3])
    /\ Len(tasks) = 2

\* C16: the workflow [echo with the flag False, fail, echo], no step naming an
\* agent, run against w1 and w2, returns two Tasks and never submits its
\* third step.
C16_ScenarioStops ==
    wf.steps = WScenario
        => /\ wf.pc # "raised"
           /\ wf.pc = "returned" => Len(wf.results) = 2
           /\ \A k \in 1..Len(Submitted) : Submitted[k][1] # 3

\* C17: at a step that names no agent the workflow polls the Task until it is
\* terminal and appends it: it never raises there and never appends None.
C17_UnnamedStepPolled ==
    /\ wf.pc = "raised" => Truthy(step_agent(wf.steps[wf.i]))
    /\ \A r \in 1..Len(wf.results) : wf.results[r] # NoTask
    /\ (wf.pc = "returned" /\ wf.steps # <<>>)
          => \A k \in 1..Len(Submitted) :
                 \E r \in 1..Len(wf.results) : wf.results[r] = Submitted[k][2]

\* C18: the workflow submits a step only when the Task of every step it
\* submitted before is completed or failed; the Tasks it returns are
\* completed or failed and stand in the order of their steps.
C18_Sequential ==
    /\ \A k \in 1..(Len(Submitted) - 1) :
          /\ tasks[Submitted[k][2]].status \in Terminal
          /\ Submitted[k][1] < Submitted[k + 1][1]
    /\ wf.pc = "returned"
          => /\ wf.results = SubmittedIds
             /\ \A r \in 1..Len(wf.results) : tasks[wf.results[r]].status \in Terminal

C18_Witness ==
    /\ wf.pc = "returned"
    /\ Len(wf.results) = 3
    /\ tasks[wf.results[1]].status = "completed"
    /\ tasks[wf.results[2]].status = "failed"
    /\ Submitted[3][1] = 3

\* C19: a step whose submit_task call returns None adds no entry to the
\* results and does not end the workflow, whatever its flag: in the same
\* step the workflow submits the next step that can be routed, and it
\* returns only where no later step can be routed.
C19_SkipGoesOn ==
    [][\A j \in wf'.skipped \ wf.skipped :
          /\ \A k \in 1..Len(wf'.submitted) : wf'.submitted[k][1] # j
          /\ Len(wf'.results) <= Len(wf'.submitted)
          /\ \A r \in 1..Len(wf'.results) : wf'.results[r] = wf'.submitted[r][2]
          /\ wf'.pc \in {"sleeping", "returned"}
          /\ wf'.i > j
          /\ \A k \in (j + 1)..(wf'.i - 1) : ~Routable(wf'.steps[k])
          /\ wf'.pc = "sleeping"
                => /\ Len(wf'.submitted) = Len(wf.submitted) + 1
                   /\ wf'.submitted[Len(wf'.submitted)][1] = wf'.i
          /\ wf'.pc = "returned" => wf'.i = Len(wf'.steps) + 1]_vars

C19_Witness ==
    /\ wf.steps = WSkip
    /\ wf.skipped = {1, 2}
    /\ ~step_continue_on_failure(wf.steps[1])
    /\ wf.pc = "returned"
    /\ Len(wf.results) = 1
    /\ Submitted[1][1] = 3

\* C20: when stop() returns, every pump loop that process_tasks has ever
\* created has left its loop, those of an earlier process_tasks call included.
C20_StopWaitsForAll ==
    call.op = "stop" => \A w \in Loops : pc[w] \in {"unborn", "done"}

\* C21: when stop() returns, no pump loop still holds a Task that was inside
\* execute when stop() was called: every such Task has been brought to
\* completed or failed and to its ledger.
C21_InFlightDone ==
    call.op = "stop" => \A w \in Loops : ~cur[w].at_stop

\* C22 as stated: while _is_running stays False, no Task leaves pending.
C22_NoNewWork_AsStated ==
    [][(~is_running /\ ~is_running')
          => \A i \in TaskIds :
                tasks[i].status = "pending" => tasks'[i].status = "pending"]_vars

\* C22 amended: while _is_running is False no pump loop enters its dequeue
\* wait, so that a Task leaves pending only through a loop that was already
\* in that wait, and that loop does not return to it.
C22_NoNewIteration ==
    [][~is_running'
          => /\ \A w \in Loops : pc'[w] = "waiting" => pc[w] = "waiting"
             /\ \A i \in TaskIds :
                   (tasks[i].status = "pending" /\ tasks'[i].status # "pending")
                       => \E w \in Loops : pc[w] = "waiting" /\ pc'[w] # "waiting"]_vars

C22_Witness ==
    /\ stop_pc = "gather"
    /\ ~is_running
    /\ \E w \in Loops :
          /\ pc[w] = "executing"
          /\ ~cur[w].at_stop
          /\ tasks[cur[w].task].status = "running"

\* C23: the step in which process_task comes back from an execute that raised
\* leaves the pump loop at its loop test (in its dequeue wait while
\* _is_running), and changes neither another loop nor another Task nor the
\* queue.
C23_RaiseKeepsLoop ==
    [][(call'.op = "process_task" /\ call'.outcome.kind = "raise")
          => \A w \in Loops :
                (pc[w] = "executing" /\ cur[w].task = call'.ret)
                    => /\ pc'[w] = (IF is_running THEN "waiting" ELSE "done")
                       /\ \A v \in Loops \ {w} : pc'[v] = pc[v] /\ cur'[v] = cur[v]
                       /\ \A i \in TaskIds \ {call'.ret} : tasks'[i] = tasks[i]
                       /\ task_queue' = task_queue]_vars

C23_Witness ==
    /\ call.op = "process_task"
    /\ call.outcome.kind = "raise"
    /\ is_running
    /\ \E w, v \in Loops :
          /\ pc[w] = "waiting"
          /\ pc[v] = "executing"
          /\ tasks[cur[v].task].status = "running"

QCount(q, i) == Cardinality({k \in 1..Len(q) : q[k][2] = i})

\* C24: no two pump loops hold the same Task; a Task stands at most once in
\* the queue, and only while it is pending and process_task was never invoked
\* on it; an item enters the queue only in the step that allocates its Task.
C24_OneOwnerOneEnqueue ==
    [][/\ \A w, v \in Loops :
            (w # v /\ cur'[w].task # NoTask) => cur'[w].task # cur'[v].task
       /\ \A i \in 1..Len(tasks') :
            /\ QCount(task_queue', i) <= 1
            /\ QCount(task_queue', i) = 1
                  => /\ process_calls'[i] = 0
                     /\ tasks'[i].status = "pending"
                     /\ \A w \in Loops : cur'[w].task # i
       /\ \A k \in 1..Len(task_queue') :
            \/ \E m \in 1..Len(task_queue) : task_queue[m] = task_queue'[k]
            \/ /\ Len(tasks') = Len(tasks) + 1
               /\ task_queue'[k][2] = Len(tasks')]_vars

C24_Witness ==
    /\ \A w \in Loops : pc[w] = "executing"
    /\ \E w, v \in Loops : cur[w].task # cur[v].task
    /\ task_queue = <<>>

(* The agents that the platform registers at construction: each was        *)
(* registered before any agent outside this set                            *)
FirstRegistered == {"w1", "w2"}
RegisteredBefore(b, a) == b \in FirstRegistered /\ a \notin FirstRegistered

\* The agent whose table the step extends by the Task id
Routed(a, id) == agent_tasks'[a] = Append(agent_tasks[a], id)

\* C25 as stated: a submit_task call without an agent name returns None exactly
\* when no registered agent has the type among its capabilities, and otherwise
\* routes the Task to the capable registered agent that was registered
\* earliest.
C25_EarliestRegistered_AsStated ==
    [][(call'.op = "submit_task" /\ call'.agent_name = None)
          => /\ call'.ret = NoTask <=> NoCapable(agents, call'.type)
             /\ call'.ret # NoTask
                  => \E a \in Registered :
                        /\ Routed(a, call'.ret)
                        /\ can_handle(a, call'.type)
                        /\ \A b \in Registered :
                              can_handle(b, call'.type) => ~RegisteredBefore(b, a)]_vars

\* C25 amended: a submit_task call without an agent name returns None exactly
\* when no registered agent has the type among its capabilities, and otherwise
\* routes the Task to the first capable agent in the order of the registry;
\* in that order a name stands where it was first registered, whichever agent
\* holds it now.
C25_FirstInRegistry ==
    [][/\ (call'.op = "submit_task" /\ call'.agent_name = None)
            => /\ call'.ret = NoTask <=> NoCapable(agents, call'.type)
               /\ call'.ret # NoTask
                    => \E k \in 1..Len(agents) :
                          /\ Routed(agents[k], call'.ret)
                          /\ can_handle(agents[k], call'.type)
                          /\ \A j \in 1..(k - 1) : ~can_handle(agents[j], call'.type)
       /\ agents' # agents
            => /\ Len(agents') \in {Len(agents), Len(agents) + 1}
               /\ \A k \in 1..Len(agents) :
                     Agent[agents'[k]].name = Agent[agents[k]].name]_vars

C25_Witness ==
    /\ call.op = "submit_task"
    /\ call.agent_name = None
    /\ call.type = "fail"
    /\ call.ret # NoTask
    /\ agents[1] = "w1b"
    /\ agents[2] = "w2"
    /\ get_task(agent_tasks["w1b"], call.ret) = call.ret

\* C26: a register_agent call under a name that is taken succeeds: afterwards
\* the registry holds exactly one agent under each name, and under the name of
\* the agent just registered it holds that agent.
C26_LastRegistrationWins ==
    [][\A a \in AgentObjs :
          (a \notin Registered /\ a \in Registered')
              => /\ \E k \in 1..Len(agents') :
                       /\ agents'[k] = a
                       /\ \A j \in 1..Len(agents') :
                             Agent[agents'[j]].name = Agent[a].name => j = k
                 /\ get_agent(agents', Agent[a].name) = a
                 /\ \A b \in Registered :
                       Agent[b].name # Agent[a].name => b \in Registered']_vars

C26_Witness ==
    /\ "w1b" \in Registered
    /\ "w1" \notin Registered
    /\ get_agent(agents, "w1") = "w1b"
    /\ agent_tasks["w1"] # <<>>

IsZero(x) == x.num = 0 /\ x.den # 0

\* C27: with both ledgers empty get_system_status reports the success rate 0,
\* and for every registered agent without a completed or failed Task it
\* reports the success rate 0; no division by zero takes place.
C27_ZeroRate ==
    /\ get_system_status.success_rate.den # 0
    /\ (completed_tasks = <<>> /\ failed_tasks = <<>>)
          => IsZero(get_system_status.success_rate)
    /\ \A k \in 1..Len(agents) :
          /\ get_system_status.agents[k].success_rate.den # 0
          /\ (status_count(agents[k], "completed") + status_count(agents[k], "failed")) = 0
                => IsZero(get_system_status.agents[k].success_rate)

C27_Witness ==
    /\ completed_tasks = <<>>
    /\ failed_tasks = <<>>
    /\ \E i \in TaskIds : tasks[i].status = "running"
    /\ IsZero(get_system_status.success_rate)
    /\ \A k \in 1..Len(agents) : IsZero(get_system_status.agents[k].success_rate)

\* C28 as stated: get_system_status reports the number of ledger entries, the
\* length of the queue and, where a ledger entry exists, the success rate
\* |completed| / total, a value between 0 and 1.
C28_Ratio_AsStated ==
    LET st == get_system_status
        total == Len(completed_tasks) + Len(failed_tasks)
    IN  /\ st.total_tasks_processed = total
        /\ st.queue_size = Len(task_queue)
        /\ total > 0
              => /\ st.success_rate.num * total = Len(completed_tasks) * st.success_rate.den
                 /\ st.success_rate.num <= st.success_rate.den

\* C28 amended: get_system_status reports the number of ledger entries, the
\* length of the queue and, where a ledger entry exists, the success rate as
\* the percentage 100 * |completed| / total, a value between 0 and 100.
C28_Percentage ==
    LET st == get_system_status
        total == Len(completed_tasks) + Len(failed_tasks)
    IN  /\ st.total_tasks_processed = total
        /\ st.queue_size = Len(task_queue)
        /\ total > 0
              => /\ st.success_rate.den > 0
                 /\ st.success_rate.num * total
                        = 100 * Len(completed_tasks) * st.success_rate.den
                 /\ st.success_rate.num >= 0
                 /\ st.success_rate.num <= 100 * st.success_rate.den

C28_Witness ==
    /\ Len(completed_tasks) = 1
    /\ Len(failed_tasks) = 1
    /\ task_queue = <<>>
    /\ get_system_status.success_rate = Fraction(100, 2)
    /\ get_system_status.total_tasks_processed = 2

\* C29: a step leaves a ledger as it is or appends to it the one Task that
\* the same step has brought to the status of that ledger; no entry is
\* removed or moved.
C29_CompletionOrder ==
    [][/\ \/ completed_tasks' = completed_tasks
          \/ \E i \in TaskIds :
                /\ completed_tasks' = Append(completed_tasks, i)
                /\ tasks[i].status \notin Terminal
                /\ tasks'[i].status = "completed"
       /\ \/ failed_tasks' = failed_tasks
          \/ \E i \in TaskIds :
                /\ failed_tasks' = Append(failed_tasks, i)
                /\ tasks[i].status \notin Terminal
                /\ tasks'[i].status = "failed"]_vars

C29_Witness ==
    /\ Len(completed_tasks) = 2
    /\ completed_tasks[1] > completed_tasks[2]

\* C30: when process_task is invoked on a Task whose type the agent lacks, the
\* same step takes the Task from pending to failed with the error set,
\* started_at and result unset, appends it to the failed ledger only, and
\* brings no pump loop into execute.
C30_MismatchFails ==
    [][\A i \in TaskIds :
          (/\ process_calls'[i] = process_calls[i] + 1
           /\ ~can_handle(get_agent(agents, queue_front(task_queue)[1]), tasks[i].type))
              => /\ tasks[i].status = "pending"
                 /\ tasks'[i].status = "failed"
                 /\ tasks'[i].error = CannotHandle
                 /\ tasks'[i].started_at = NoTime
                 /\ tasks'[i].result = NoResult
                 /\ failed_tasks' = Append(failed_tasks, i)
                 /\ completed_tasks' = completed_tasks
                 /\ \A w \in Loops :
                       /\ cur'[w].task # i
                       /\ pc'[w] = "executing" => pc[w] = "executing"]_vars

C30_Witness ==
    /\ call.op = "process_task"
    /\ call.outcome = NoOutcome
    /\ process_calls[call.ret] = 1
    /\ tasks[call.ret].status = "failed"
    /\ tasks[call.ret].error = CannotHandle
    /\ failed_tasks = <<call.ret>>
    /\ completed_tasks = <<>>

(* The Tasks of one status that the table of agent object a holds *)
OwnTasks(a, status) ==
    {i \in TaskIds : get_task(agent_tasks[a], i) # NoTask /\ tasks[i].status = status}

\* C31: in what get_system_status returns, the tasks_completed, tasks_failed
\* and tasks_running of each registered agent are the numbers of Tasks in that
\* agent's own table that are completed, failed and running at the call,
\* whatever the ledgers of the orchestrator hold.
C31_CountsFromOwnTable ==
    \A k \in 1..Len(agents) :
        LET entry == get_system_status.agents[k] IN
        /\ entry.tasks_completed = Cardinality(OwnTasks(agents[k], "completed"))
        /\ entry.tasks_failed = Cardinality(OwnTasks(agents[k], "failed"))
        /\ entry.tasks_running = Cardinality(OwnTasks(agents[k], "running"))

\* The ledgers hold one Task, of an agent that is no longer registered, while
\* a registered agent has one Task running and none that is terminal
C31_Witness ==
    /\ Len(completed_tasks) + Len(failed_tasks) = 1
    /\ \E k \in 1..Len(agents) :
          /\ get_system_status.agents[k].tasks_completed = 0
          /\ get_system_status.agents[k].tasks_failed = 0
          /\ get_system_status.agents[k].tasks_running = 1
    /\ \E a \in AgentObjs \ Registered :
          OwnTasks(a, "completed") \cup OwnTasks(a, "failed") # {}

(* No registered agent goes by this name *)
Unregistered(name) == \A a \in Registered : Agent[a].name # name

\* C32: when a pump loop takes (agent_name, task) off the queue and no agent is
\* registered under agent_name, the Task goes to neither ledger, stays pending
\* and is not handed to process_task, and the loop goes on to its next
\* iteration, where it waits for the next item.
\* (SpecDrop has one pump loop: the loop that waits is the one that dequeues.)
C32_MissingAgentDrops ==
    [][\A w \in Loops :
          (/\ pc[w] = "waiting"
           /\ task_queue # <<>>
           /\ task_queue' = Tail(task_queue)
           /\ Unregistered(Head(task_queue)[1]))
          => /\ tasks' = tasks
             /\ tasks[Head(task_queue)[2]].status = "pending"
             /\ completed_tasks' = completed_tasks
             /\ failed_tasks' = failed_tasks
             /\ process_calls' = process_calls
             /\ cur'[w] = NoCur
             /\ is_running => pc'[w] = "waiting"]_vars

\* The one loop dropped the first Task and has processed the second one
C32_Witness ==
    /\ Len(tasks) = 2
    /\ task_queue = <<>>
    /\ tasks[1].status = "pending" /\ process_calls[1] = 0 /\ ~InLedger(1)
    /\ InLedger(2)
    /\ pc[1] = "waiting"

\* C33: process_task is only ever invoked on a Task by the agent object that
\* created it and holds it in its table, also when register_agent put another
\* agent under the same name between the submit and the dequeue.
C33_DrivenByOwner ==
    [][\A i \in TaskIds :
          process_calls'[i] > process_calls[i]
          => get_task(agent_tasks[get_agent(agents, Head(task_queue)[1])], i) # NoTask]_vars

(* The ids of a ledger grow along it *)
Ascending(ledger) == \A k, l \in 1..Len(ledger) : k < l => ledger[k] < ledger[l]

\* C34: with a pool of exactly one pump loop, process_task is invoked on the
\* Tasks in the order of their submission, a Task is not started before every
\* Task submitted ahead of it is terminal, and so in each ledger the Tasks
\* stand in the order of their submission.  (Task ids count the submissions.)
C34_SingleLoopFifo ==
    /\ \A i, j \in TaskIds :
          (i < j /\ process_calls[j] > 0)
          => process_calls[i] > 0 /\ tasks[i].status \in Terminal
    /\ Cardinality({i \in TaskIds : tasks[i].status = "running"}) <= 1
    /\ Ascending(completed_tasks)
    /\ Ascending(failed_tasks)

\* Both Tasks went through the one loop and stand in one ledger
C34_Witness ==
    /\ Cardinality({w \in Loops : pc[w] # "unborn"}) = 1
    /\ completed_tasks = <<1, 2>> \/ failed_tasks = <<1, 2>>

\* C35: in every reachable state every Task in the queue is pending, every
\* Task in the completed ledger is completed and every Task in the failed
\* ledger is failed.
C35_QueueAndLedgerStatus ==
    /\ \A k \in 1..Len(task_queue) : tasks[task_queue[k][2]].status = "pending"
    /\ \A k \in 1..Len(completed_tasks) : tasks[completed_tasks[k]].status = "completed"
    /\ \A k \in 1..Len(failed_tasks) : tasks[failed_tasks[k]].status = "failed"

\* One Task waits in the queue behind one that a loop has taken to a ledger
C35_Witness ==
    /\ Len(task_queue) = 1
    /\ Len(completed_tasks) + Len(failed_tasks) = 1
    /\ \E w \in Loops : pc[w] = "waiting"

RECURSIVE Sum(_)
Sum(seq) == IF seq = <<>> THEN 0 ELSE Head(seq) + Sum(Tail(seq))

(* The per-agent figures of get_system_status, in registry order *)
CompletedCounts == [k \in 1..Len(agents) |-> get_system_status.agents[k].tasks_completed]
FailedCounts == [k \in 1..Len(agents) |-> get_system_status.agents[k].tasks_failed]

(* Every agent object that holds a Task is the one registered under its    *)
(* name: so it is in every state of a run without re-registration          *)
OwnersRegistered == \A a \in AgentObjs : agent_tasks[a] # <<>> => a \in Registered

\* C36: as long as no agent that holds Tasks has been replaced in the
\* registry, total_tasks_processed of get_system_status is the sum over the
\* agents of tasks_completed + tasks_failed and the length of the completed
\* ledger is the sum of their tasks_completed; and in any state a Task is
\* terminal exactly when it stands in a ledger.
C36_TotalsAgree ==
    /\ OwnersRegistered =>
          /\ get_system_status.total_tasks_processed
                = Sum(CompletedCounts) + Sum(FailedCounts)
          /\ Len(completed_tasks) = Sum(CompletedCounts)
    /\ \A i \in TaskIds : tasks[i].status \in Terminal <=> InLedger(i)

\* Two agents, never replaced, with one terminal Task each
C36_Witness ==
    /\ agents = <<"w1", "w2">>
    /\ agent_tasks["w1b"] = <<>>
    /\ get_system_status.total_tasks_processed = 2
    /\ get_system_status.agents[1].tasks_completed = 1
    /\ get_system_status.agents[2].tasks_failed = 1

\* C37: a submit_task call that returns None changes nothing: no agent's table
\* gets a Task, and the queue, both ledgers, the running flag, the registry
\* and the Tasks are as before the call.
C37_SubmitNoneFrame ==
    [][(call'.op = "submit_task" /\ call'.ret = NoTask)
          => /\ agent_tasks' = agent_tasks
             /\ tasks' = tasks
             /\ task_queue' = task_queue
             /\ completed_tasks' = completed_tasks
             /\ failed_tasks' = failed_tasks
             /\ is_running' = is_running
             /\ agents' = agents
             /\ process_calls' = process_calls]_vars

\* A submit for a named agent that is not registered returned None while the
\* pool runs with one Task queued and one in a ledger
C37_Witness ==
    /\ call.op = "submit_task"
    /\ call.ret = NoTask
    /\ call.agent_name \notin {None, ""}
    /\ get_agent(agents, call.agent_name) = None
    /\ is_running
    /\ Len(task_queue) = 1
    /\ Len(completed_tasks) + Len(failed_tasks) = 1

(* No pump loop is alive: none was started, or each has left its while loop *)
NoLoopAlive == \A w \in Loops : pc[w] \in {"unborn", "done"}

\* C38: stop() leaves the queue alone.  Neither half of stop changes the queue
\* or a Task; while no pump loop is alive the queued Tasks stay where they
\* are, pending; a submit_task that returns a Task while the running flag is
\* off has queued it; and once a pool runs again after an earlier one has
\* exited, every Task becomes completed or failed unless stop is called again.
C38_StopKeepsQueue ==
    /\ [][((is_running /\ ~is_running') \/ call'.op = "stop")
             => task_queue' = task_queue /\ tasks' = tasks]_vars
    /\ [][NoLoopAlive
             => \A k \in 1..Len(task_queue) :
                   /\ k <= Len(task_queue')
                   /\ task_queue'[k] = task_queue[k]
                   /\ tasks'[task_queue[k][2]].status = "pending"]_vars
    /\ [][(~is_running /\ call'.op = "submit_task" /\ call'.ret # NoTask)
             => /\ Len(task_queue') = Len(task_queue) + 1
                /\ task_queue'[Len(task_queue')][2] = call'.ret
                /\ tasks'[call'.ret].status = "pending"]_vars
    /\ \A i \in 1..MaxTasks :
          (i \in TaskIds /\ is_running /\ \E w \in Loops : pc[w] = "done")
              ~> (~is_running \/ (i \in TaskIds /\ tasks[i].status \in Terminal /\ InLedger(i)))

\* stop() has just returned, every pump loop has exited, one Task is in a
\* ledger and the other one is still in the queue
C38_Witness ==
    /\ call.op = "stop"
    /\ ~is_running
    /\ NoLoopAlive /\ \E w \in Loops : pc[w] = "done"
    /\ Len(tasks) = 2
    /\ Len(task_queue) = 1
    /\ Len(completed_tasks) + Len(failed_tasks) = 1

(* Every step of the workflow names its agent *)
AllNamed(steps) == \A j \in 1..Len(steps) : Truthy(step_agent(steps[j]))

\* C39: an execute_workflow call whose steps all name their agent returns in
\* the end when a pool runs all the while and every execute comes back; and
\* as long as no pump loop is alive, a call that waits for a Task it has
\* submitted does not return.
C39_WorkflowReturns ==
    /\ (wf.pc = "sleeping" /\ AllNamed(wf.steps) /\ is_running) ~> (wf.pc = "returned")
    /\ [][(NoLoopAlive /\ wf.pc = "sleeping") => wf'.pc # "returned"]_vars
====
